---- MODULE Spec2Model ----
(***************************************************************************)
(* Model of the policy store (src/js/stores/policy.js), the NumberInput    *)
(* value extraction (NumberInput.extractValue) and the Document record     *)
(* (Document.prototype.resize) of spaces-design.                           *)
(*                                                                         *)
(* The specifications share the variables:                                 *)
(*   Spec       the PolicyStore driven by its callers and the dispatcher   *)
(*   StackSpec  Spec with the unmatched suspends of each kind counted      *)
(*   SyncSpec   the PolicyStore beside the sync of policies to Photoshop   *)
(*   NumSpec    NumberInput.extractValue applied to raw input strings      *)
(*   DocSpec    Document.prototype.resize applied to document records      *)
(***************************************************************************)
EXTENDS Integers, Sequences, FiniteSets, TLC

(* ------------------------------ bounds -------------------------------- *)
\* largest number of policy lists added (over both kinds) between two RESETs
MaxID == 2
\* largest mode number carried by a MODE_CHANGED payload
MaxMode == 0
\* largest number of nested suspend calls tracked per kind
MaxDepth == 2
\* longest raw string typed into a NumberInput
MaxLen == 3
\* largest width/height passed to Document.resize and largest document offset
MaxSize == 2

(* --------------------------- store constants -------------------------- *)
\* _eventKind.KEYBOARD / _eventKind.POINTER
KEYBOARD == "keyboard"
POINTER == "pointer"
Kinds == {KEYBOARD, POINTER}

\* the value of a property that was never assigned (JavaScript undefined)
Undefined == -1
Modes == 0..MaxMode

\* policy lists handed to addPolicyList: each call passes a new array of event
\* policies, here the array holding the policy numbered n
PolicyList(n) == <<n>>

NotSuspendedError == "Policies are not currently suspended"
NoSuchListError == "No policies installed with ID"
NoError == "none"

VARIABLES
    policySets,           \* _policySets: kind -> EventPolicySet
    modes,                \* _modes: kind -> mode or Undefined
    suspendedPolicySets,  \* _suspendedPolicySets: keys are the suspended kinds
    suspendedModes,       \* _suspendedModes: kind -> mode or Undefined
    dirtyPolicies,        \* _dirtyPolicies: kind -> truthiness of the entry
    outcome,              \* the last call/handler: error thrown, change event emitted
    inflight,             \* master lists read by a sync not yet acknowledged
    installed,            \* master list last installed in Photoshop, per kind
    unmatched,            \* history, kept in StackSpec only: suspends since RESET
                          \* minus successful restores, per kind
    openSuspend,          \* history: suspend with no later successful restore/RESET
    live,                 \* history, kept in StackSpec only: lists added and not
                          \* removed since RESET, per kind
    modeAtSuspend,        \* history: getMode(kind) at the most recent suspend
    suspension,           \* history: per kind, the lists held at the most recent
                          \* suspend and the lists added since, less those removed;
                          \* kept until the call after the restore
    snapshot,             \* history: kind, lists, master list and mode at a suspend from
                          \* a non-suspended state, kept until a call other than the
                          \* restore that follows it intervenes
    rawValue,             \* NumberInput: the raw string in the text field
    extracted,            \* NumberInput: the last result of extractValue
    doc,                  \* Document: the receiver of resize
    resized               \* Document: the record returned by resize

storeVars == <<policySets, modes, suspendedPolicySets, suspendedModes, dirtyPolicies>>
syncVars == <<inflight, installed>>
historyVars == <<outcome, unmatched, openSuspend, live, modeAtSuspend, snapshot,
                 suspension>>
numVars == <<rawValue, extracted>>
docVars == <<doc, resized>>
vars == <<storeVars, syncVars, historyVars, numVars, docVars>>

(* --------------------------- EventPolicySet --------------------------- *)
Max(a, b) == IF a >= b THEN a ELSE b

\* new EventPolicySet(counter)
EventPolicySet(counter) == [lists |-> <<>>, counter |-> counter]

getNextPolicyID(set) == set.counter

has(set, id) == id \in DOMAIN set.lists

SetAddPolicyList(set, policyList) ==
    [lists |-> [i \in DOMAIN set.lists \cup {set.counter} |->
                    IF i = set.counter THEN policyList ELSE set.lists[i]],
     counter |-> set.counter + 1]

SetRemovePolicyList(set, id) ==
    [lists |-> [i \in DOMAIN set.lists \ {id} |-> set.lists[i]],
     counter |-> set.counter]

\* suspended.append(current): the lists of both sets, under their ids
append(set, other) ==
    [lists |-> [i \in DOMAIN set.lists \cup DOMAIN other.lists |->
                    IF i \in DOMAIN other.lists THEN other.lists[i] ELSE set.lists[i]],
     counter |-> Max(set.counter, other.counter)]

MinOf(S) == CHOOSE m \in S : \A n \in S : m <= n

RECURSIVE ConcatLists(_, _)
ConcatLists(lists, ids) ==
    IF ids = {} THEN <<>>
    ELSE LET m == MinOf(ids) IN lists[m] \o ConcatLists(lists, ids \ {m})

\* Object.keys enumerates integer keys in ascending order; the lists are concatenated
SetMasterPolicyList(set) == ConcatLists(set.lists, DOMAIN set.lists)

(* ----------------------------- PolicyStore ---------------------------- *)
isDirty(kind) == dirtyPolicies[kind]

getMode(kind) == modes[kind]

isSuspendedByMode(kind) == suspendedModes[kind] # Undefined

isSuspended(kind) == kind \in DOMAIN suspendedPolicySets

areAllSuspended ==
    KEYBOARD \in DOMAIN suspendedPolicySets /\ KEYBOARD \in DOMAIN suspendedPolicySets

getMasterPolicyList(kind) == SetMasterPolicyList(policySets[kind])

\* what the call or handler that ran last did besides changing the fields: the
\* error it threw, whether it emitted "change", and whether it replaced a mode
\* by a different one saved earlier
Outcome(error, emitted, modeDiscarded) ==
    [error |-> error, emitted |-> emitted, modeDiscarded |-> modeDiscarded]

Without(f, k) == [x \in DOMAIN f \ {k} |-> f[x]]
With(f, k, v) == [x \in DOMAIN f \cup {k} |-> IF x = k THEN v ELSE f[x]]

\* number of policy lists added since the last RESET
Added == policySets[KEYBOARD].counter + policySets[POINTER].counter

\* the record of a kind with no suspension under way
NoSuspension == [held |-> <<>>, added |-> <<>>, restored |-> FALSE]

\* the records once another call follows a restore
Settled(records) ==
    [k \in Kinds |-> IF records[k].restored THEN NoSuspension ELSE records[k]]

\* the records after the list id of a kind was removed
Dropped(records, kind, id) ==
    [records EXCEPT ![kind] = [held |-> Without(@.held, id),
                               added |-> Without(@.added, id),
                               restored |-> @.restored]]

\* _handleReset: fresh policy sets, empty modes, suspensions and dirty bits
handleReset ==
    /\ policySets' = [k \in Kinds |-> EventPolicySet(0)]
    /\ modes' = [k \in Kinds |-> Undefined]
    /\ suspendedPolicySets' = <<>>
    /\ suspendedModes' = [k \in Kinds |-> Undefined]
    /\ dirtyPolicies' = [k \in Kinds |-> FALSE]
    /\ outcome' = Outcome(NoError, FALSE, FALSE)
    /\ unmatched' = [k \in DOMAIN unmatched |-> 0]
    /\ openSuspend' = [k \in Kinds |-> FALSE]
    /\ live' = [k \in DOMAIN live |-> <<>>]
    /\ modeAtSuspend' = [k \in Kinds |-> Undefined]
    /\ snapshot' = <<>>
    /\ suspension' = [k \in Kinds |-> NoSuspension]
    /\ UNCHANGED <<syncVars, numVars, docVars>>

\* _handleModeChanged
handleModeChanged(kind, mode) ==
    /\ modes' = [modes EXCEPT ![kind] = mode]
    /\ outcome' = Outcome(NoError, TRUE, FALSE)
    /\ snapshot' = <<>>
    /\ suspension' = Settled(suspension)
    /\ UNCHANGED <<policySets, suspendedPolicySets, suspendedModes, dirtyPolicies,
                   unmatched, openSuspend, live, modeAtSuspend,
                   syncVars, numVars, docVars>>

\* suspend, lines 196-197: the counter handed to the new policy set
nextCounterZero(kind) == 0

nextCounter(kind) == getNextPolicyID(policySets[kind])

\* suspend
suspend(kind) ==
    /\ kind \in DOMAIN unmatched => unmatched[kind] < MaxDepth
    /\ LET previousPolicySet == policySets[kind]
           counter == nextCounter(kind)
       IN /\ policySets' = [policySets EXCEPT ![kind] = EventPolicySet(counter)]
          /\ suspendedPolicySets' = With(suspendedPolicySets, kind, previousPolicySet)
    /\ suspendedModes' = [suspendedModes EXCEPT ![kind] = modes[kind]]
    /\ dirtyPolicies' = [dirtyPolicies EXCEPT ![kind] = TRUE]
    /\ outcome' = Outcome(NoError, TRUE, FALSE)
    /\ unmatched' = [k \in DOMAIN unmatched |-> unmatched[k] + (IF k = kind THEN 1 ELSE 0)]
    /\ openSuspend' = [openSuspend EXCEPT ![kind] = TRUE]
    /\ modeAtSuspend' = [modeAtSuspend EXCEPT ![kind] = getMode(kind)]
    /\ snapshot' = IF kind \in DOMAIN suspendedPolicySets THEN <<>>
                    ELSE <<[kind |-> kind, restored |-> FALSE,
                            lists |-> policySets[kind].lists,
                            master |-> getMasterPolicyList(kind),
                            mode |-> getMode(kind)]>>
    /\ suspension' = [Settled(suspension) EXCEPT
                         ![kind] = [held |-> policySets[kind].lists, added |-> <<>>,
                                    restored |-> FALSE]]
    /\ UNCHANGED <<modes, live, syncVars, numVars, docVars>>

\* restore, lines 216-218: nothing is suspended, the call throws
restoreThrowsDirty(kind) ==
    /\ dirtyPolicies' = [dirtyPolicies EXCEPT ![kind] = TRUE]
    /\ outcome' = Outcome(NotSuspendedError, FALSE, FALSE)
    /\ UNCHANGED <<policySets, modes, suspendedPolicySets, suspendedModes,
                   unmatched, openSuspend, live, modeAtSuspend,
                   snapshot, suspension, syncVars, numVars, docVars>>

restoreThrows(kind) ==
    /\ outcome' = Outcome(NotSuspendedError, FALSE, FALSE)
    /\ UNCHANGED <<storeVars, unmatched, openSuspend, live, modeAtSuspend,
                   snapshot, suspension, syncVars, numVars, docVars>>

\* restore, lines 214 and 220: the mode that restore assigns
restoredModeCurrent(kind) == modes[kind]

restoredMode(kind) == suspendedModes[kind]

\* restore, lines 213 and 221: the policy set that restore assigns
restoredPolicySetCurrent(kind) == policySets[kind]

restoredPolicySet(kind) == append(suspendedPolicySets[kind], policySets[kind])

\* restore
restore(kind) ==
    IF ~ (kind \in DOMAIN suspendedPolicySets)
    THEN restoreThrows(kind)
    ELSE /\ modes' = [modes EXCEPT ![kind] = restoredMode(kind)]
         /\ policySets' = [policySets EXCEPT ![kind] = restoredPolicySet(kind)]
         /\ suspendedPolicySets' = Without(suspendedPolicySets, kind)
         /\ dirtyPolicies' = [dirtyPolicies EXCEPT ![kind] = TRUE]
         /\ outcome' = Outcome(NoError, TRUE, getMode(kind) # restoredMode(kind))
         /\ unmatched' = [k \in DOMAIN unmatched |-> unmatched[k] - (IF k = kind THEN 1 ELSE 0)]
         /\ openSuspend' = [openSuspend EXCEPT ![kind] = FALSE]
         /\ snapshot' = IF snapshot # <<>> /\ snapshot[1].kind = kind
                                          /\ ~ snapshot[1].restored
                        THEN <<[snapshot[1] EXCEPT !.restored = TRUE]>> ELSE <<>>
         /\ suspension' = [Settled(suspension) EXCEPT ![kind].restored = TRUE]
         /\ UNCHANGED <<suspendedModes, live, modeAtSuspend,
                        syncVars, numVars, docVars>>

\* removePolicyList
removePolicyList(kind, id) ==
    /\ dirtyPolicies' = [dirtyPolicies EXCEPT ![kind] = TRUE]
    /\ IF kind \in DOMAIN suspendedPolicySets /\ has(suspendedPolicySets[kind], id)
       THEN /\ suspendedPolicySets' =
                   [suspendedPolicySets EXCEPT ![kind] = SetRemovePolicyList(@, id)]
            /\ outcome' = Outcome(NoError, FALSE, FALSE)
            /\ live' = [k \in DOMAIN live |-> IF k = kind THEN Without(live[k], id) ELSE live[k]]
            /\ UNCHANGED policySets
       ELSE IF has(policySets[kind], id)
       THEN /\ policySets' = [policySets EXCEPT ![kind] = SetRemovePolicyList(@, id)]
            /\ outcome' = Outcome(NoError, FALSE, FALSE)
            /\ live' = [k \in DOMAIN live |-> IF k = kind THEN Without(live[k], id) ELSE live[k]]
            /\ UNCHANGED suspendedPolicySets
       ELSE /\ outcome' = Outcome(NoSuchListError, FALSE, FALSE)
            /\ UNCHANGED <<policySets, suspendedPolicySets, live>>
    /\ snapshot' = <<>>
    /\ suspension' =
          IF \/ kind \in DOMAIN suspendedPolicySets /\ has(suspendedPolicySets[kind], id)
             \/ has(policySets[kind], id)
          THEN Dropped(Settled(suspension), kind, id)
          ELSE Settled(suspension)
    /\ UNCHANGED <<modes, suspendedModes, unmatched, openSuspend, modeAtSuspend,
                   syncVars, numVars, docVars>>

\* addPolicyList
addPolicyList(kind, policyList) ==
    /\ Added < MaxID
    /\ dirtyPolicies' = [dirtyPolicies EXCEPT ![kind] = TRUE]
    /\ policySets' = [policySets EXCEPT ![kind] = SetAddPolicyList(@, policyList)]
    /\ outcome' = Outcome(NoError, FALSE, FALSE)
    /\ live' = [k \in DOMAIN live |->
                    IF k = kind THEN With(live[k], policySets[kind].counter, policyList)
                    ELSE live[k]]
    /\ snapshot' = <<>>
    /\ suspension' =
          IF kind \in DOMAIN suspendedPolicySets
          THEN [Settled(suspension) EXCEPT
                   ![kind].added = With(@, policySets[kind].counter, policyList)]
          ELSE Settled(suspension)
    /\ UNCHANGED <<modes, suspendedPolicySets, suspendedModes, unmatched, openSuspend,
                   modeAtSuspend, syncVars, numVars, docVars>>

PoliciesInstalledEmitOnly(kind) ==
    /\ dirtyPolicies' = dirtyPolicies
    /\ outcome' = Outcome(NoError, TRUE, FALSE)
    /\ snapshot' = <<>>
    /\ suspension' = Settled(suspension)
    /\ UNCHANGED <<policySets, modes, suspendedPolicySets, suspendedModes,
                   unmatched, openSuspend, live, modeAtSuspend,
                   numVars, docVars>>

\* _handlePoliciesInstalled: the effect on the store
PoliciesInstalled(kind) ==
    /\ dirtyPolicies' = [dirtyPolicies EXCEPT ![kind] = FALSE]
    /\ outcome' = Outcome(NoError, TRUE, FALSE)
    /\ snapshot' = <<>>
    /\ suspension' = Settled(suspension)
    /\ UNCHANGED <<policySets, modes, suspendedPolicySets, suspendedModes,
                   unmatched, openSuspend, live, modeAtSuspend,
                   numVars, docVars>>

\* POLICIES_INSTALLED dispatched to the store by any caller
handlePoliciesInstalled(kind) ==
    /\ PoliciesInstalled(kind)
    /\ UNCHANGED syncVars

\* the sync to Photoshop reads the master policy list of a kind
syncPolicies(kind) ==
    /\ kind \notin DOMAIN inflight
    /\ inflight' = With(inflight, kind, getMasterPolicyList(kind))
    /\ outcome' = Outcome(NoError, FALSE, FALSE)
    /\ snapshot' = <<>>
    /\ suspension' = Settled(suspension)
    /\ UNCHANGED <<storeVars, installed, unmatched, openSuspend, live, modeAtSuspend,
                   numVars, docVars>>

\* Photoshop has installed the list read; POLICIES_INSTALLED is dispatched
syncInstalled(kind) ==
    /\ kind \in DOMAIN inflight
    /\ installed' = [installed EXCEPT ![kind] = inflight[kind]]
    /\ inflight' = Without(inflight, kind)
    /\ PoliciesInstalled(kind)

(* ----------------------------- NumberInput ---------------------------- *)
\* characters of a raw value; "Infinity" stands for that eight-letter word
Alphabet == {"+", "-", "0", "1", ".", "x", "Infinity"}
Digits == {"0", "1"}

RECURSIVE StringsUpTo(_)
StringsUpTo(n) ==
    IF n = 0 THEN {<<>>}
    ELSE LET shorter == StringsUpTo(n - 1)
         IN shorter \cup {Append(t, c) : t \in shorter, c \in Alphabet}

RawValues == StringsUpTo(MaxLen)

NaN == [type |-> "NaN"]
PosInfinity == [type |-> "Infinity"]
NegInfinity == [type |-> "-Infinity"]
Null == [type |-> "null"]
Unset == [type |-> "unset"]

RECURSIVE Pow10(_)
Pow10(n) == IF n = 0 THEN 1 ELSE 10 * Pow10(n - 1)

\* the number num / 10^scale, with no trailing zero in its fraction
RECURSIVE Finite(_, _)
Finite(num, scale) ==
    IF scale > 0 /\ num % 10 = 0 THEN Finite(num \div 10, scale - 1)
    ELSE [type |-> "finite", num |-> num, scale |-> scale]

AllDigits(str) == Len(str) > 0 /\ \A i \in 1..Len(str) : str[i] \in Digits

RECURSIVE DigitsValue(_)
DigitsValue(str) ==
    IF str = <<>> THEN 0
    ELSE 10 * DigitsValue(SubSeq(str, 1, Len(str) - 1))
         + (IF str[Len(str)] = "1" THEN 1 ELSE 0)

HasSign(str) == Len(str) > 0 /\ str[1] \in {"+", "-"}
Unsigned(str) == IF HasSign(str) THEN Tail(str) ELSE str
Sign(str) == IF HasSign(str) /\ str[1] = "-" THEN -1 ELSE 1

IsDecimal(body) ==
    \/ AllDigits(body)
    \/ \E i \in 1..Len(body) :
          /\ body[i] = "."
          /\ AllDigits(SubSeq(body, 1, i - 1))
          /\ AllDigits(SubSeq(body, i + 1, Len(body)))

DecimalValue(body) ==
    IF AllDigits(body) THEN Finite(DigitsValue(body), 0)
    ELSE LET i == CHOOSE j \in 1..Len(body) : body[j] = "."
             whole == SubSeq(body, 1, i - 1)
             frac == SubSeq(body, i + 1, Len(body))
         IN Finite(DigitsValue(whole) * Pow10(Len(frac)) + DigitsValue(frac), Len(frac))

\* math.parseNumber: an optional sign, then digits with an optional fraction or
\* the word Infinity, converts to that number; any other string is NaN
parseNumber(raw) ==
    LET body == Unsigned(raw)
    IN IF body = <<"Infinity">>
       THEN (IF Sign(raw) = -1 THEN NegInfinity ELSE PosInfinity)
       ELSE IF IsDecimal(body)
       THEN LET v == DecimalValue(body)
            IN Finite(Sign(raw) * v.num, v.scale)
       ELSE NaN

\* _.isFinite
isFinite(value) == value.type = "finite"

extractValueUnchecked(raw) == parseNumber(raw)

\* NumberInput.extractValue
extractValue(raw) ==
    LET value == parseNumber(raw)
    IN IF isFinite(value) THEN value ELSE Null

(* ------------------------------- Document ----------------------------- *)
Offsets == 0..1
Sizes == 0..MaxSize

\* Bounds records
MakeBounds(top, left, width, height) ==
    [top |-> top, left |-> left, bottom |-> top + height, right |-> left + width,
     width |-> width, height |-> height]

BoundsValues == {MakeBounds(t, l, w, h) : t \in Offsets, l \in Offsets,
                                          w \in Sizes, h \in Sizes}

\* Bounds.updateSize: same origin, new width and height
updateSize(bounds, x, y) == MakeBounds(bounds.top, bounds.left, x, y)

\* Document records
Documents ==
    [id : {1, 2}, name : {"a.psd"}, hasBackgroundLayer : BOOLEAN,
     layers : {"flat", "tree"}, bounds : BoundsValues, resolution : {72, 300},
     mode : {"RGBColor"}]

\* Immutable.Record set(key, value)
RecordSet(record, key, value) == [record EXCEPT ![key] = value]

resizeAndSetResolution(document, x, y) ==
    [document EXCEPT !.bounds = updateSize(document.bounds, x, y), !.resolution = x]

\* Document.prototype.resize
resize(document, x, y) ==
    RecordSet(document, "bounds", updateSize(document.bounds, x, y))

(* ---------------------------- specifications -------------------------- *)
IdleStore ==
    /\ policySets = [k \in Kinds |-> EventPolicySet(0)]
    /\ modes = [k \in Kinds |-> Undefined]
    /\ suspendedPolicySets = <<>>
    /\ suspendedModes = [k \in Kinds |-> Undefined]
    /\ dirtyPolicies = [k \in Kinds |-> FALSE]
    /\ outcome = Outcome(NoError, FALSE, FALSE)
    /\ inflight = <<>>
    /\ installed = [k \in Kinds |-> <<>>]
    /\ openSuspend = [k \in Kinds |-> FALSE]
    /\ modeAtSuspend = [k \in Kinds |-> Undefined]
    /\ snapshot = <<>>
    /\ suspension = [k \in Kinds |-> NoSuspension]

IdleNum == rawValue = <<>> /\ extracted = Unset
IdleDoc == doc = <<>> /\ resized = <<>>

\* no count of unmatched suspends and no record of the lists added is kept
NoStackHistory == unmatched = <<>> /\ live = <<>>

\* initialize: bindActions, then _handleReset
Init == IdleStore /\ NoStackHistory /\ IdleNum /\ IdleDoc

Next ==
    \/ handleReset
    \/ \E k \in Kinds, m \in Modes : handleModeChanged(k, m)
    \/ \E k \in Kinds : suspend(k)
    \/ \E k \in Kinds : restore(k)
    \/ \E k \in Kinds, id \in 0..(MaxID - 1) : removePolicyList(k, id)
    \/ \E k \in Kinds : addPolicyList(k, PolicyList(Added))
    \/ \E k \in Kinds : handlePoliciesInstalled(k)

Spec == Init /\ [][Next]_vars

\* the store with the sync to Photoshop running beside its callers
SyncNext ==
    \/ \E k \in Kinds : suspend(k)
    \/ \E k \in Kinds : restore(k)
    \/ \E k \in Kinds, id \in 0..(MaxID - 1) : removePolicyList(k, id)
    \/ \E k \in Kinds : addPolicyList(k, PolicyList(Added))
    \/ \E k \in Kinds : syncPolicies(k)
    \/ \E k \in Kinds : syncInstalled(k)

SyncSpec == Init /\ [][SyncNext]_vars

\* the store with the unmatched suspends of each kind counted
StackInit ==
    /\ IdleStore /\ IdleNum /\ IdleDoc
    /\ unmatched = [k \in Kinds |-> 0]
    /\ live = [k \in Kinds |-> <<>>]

StackSpec == StackInit /\ [][Next]_vars

\* a NumberInput holding any raw value extracts its value
NumInit == IdleStore /\ NoStackHistory /\ IdleDoc /\ rawValue \in RawValues /\ extracted = Unset

Extract ==
    /\ extracted' = extractValue(rawValue)
    /\ UNCHANGED <<rawValue, storeVars, syncVars, historyVars, docVars>>

NumNext == Extract

NumSpec == NumInit /\ [][NumNext]_vars

\* any document is resized to any size
DocInit == IdleStore /\ NoStackHistory /\ IdleNum /\ doc \in {<<d>> : d \in Documents} /\ resized = <<>>

Resize(x, y) ==
    /\ resized' = <<[x |-> x, y |-> y, result |-> resize(doc[1], x, y)]>>
    /\ UNCHANGED <<doc, storeVars, syncVars, historyVars, numVars>>

DocNext == \E x \in Sizes, y \in Sizes : Resize(x, y)

DocSpec == DocInit /\ [][DocNext]_vars

(* -------------------------------- claims ------------------------------ *)
\* C1: restore(kind) on a kind that is not suspended throws "Policies are not
\* currently suspended", changes no mode, policy set, suspended policy set or
\* dirty bit of any kind, and emits no change event.
C1_RestoreNotSuspendedThrows ==
    [][\A k \in Kinds :
          (restore(k) /\ ~ isSuspended(k)) =>
              /\ outcome'.error = NotSuspendedError
              /\ ~ outcome'.emitted
              /\ UNCHANGED storeVars]_vars

\* a restore threw on a kind that had been suspended and restored before
C1_Witness ==
    \E k \in Kinds :
        /\ outcome.error = NotSuspendedError
        /\ snapshot # <<>> /\ snapshot[1].kind = k /\ snapshot[1].restored
        /\ DOMAIN policySets[k].lists # {}
        /\ modes[k] # Undefined
        /\ suspendedPolicySets = <<>>

\* C2: after n suspend(kind) calls the n restore(kind) calls all succeed, and
\* after the last of them every list added and not removed is in the policy set.
C2_StackedRestore ==
    [][\A k \in DOMAIN unmatched :
          (restore(k) /\ unmatched[k] >= 1) =>
              /\ outcome'.error = NoError
              /\ unmatched'[k] = 0 =>
                    \A id \in DOMAIN live[k] :
                        /\ has(policySets'[k], id)
                        /\ policySets'[k].lists[id] = live[k][id]]_vars

\* C3: areAllSuspended() is true exactly when keyboard and pointer policies are
\* both suspended.
C3_AreAllSuspended ==
    areAllSuspended <=> (isSuspended(KEYBOARD) /\ isSuspended(POINTER))

\* C4: suspend(kind) from a non-suspended state, immediately followed by
\* restore(kind), gives back the same lists under the same ids, the same master
\* policy list and the same mode.
C4_RoundTrip ==
    \A k \in Kinds :
        (snapshot # <<>> /\ snapshot[1].kind = k /\ snapshot[1].restored) =>
            /\ policySets[k].lists = snapshot[1].lists
            /\ getMasterPolicyList(k) = snapshot[1].master
            /\ getMode(k) = snapshot[1].mode

\* a round trip over two installed lists and a set mode
C4_Witness ==
    /\ snapshot # <<>> /\ snapshot[1].restored
    /\ Cardinality(DOMAIN snapshot[1].lists) = 2
    /\ snapshot[1].mode # Undefined
    /\ outcome.error = NoError /\ outcome.emitted

\* C5: isSuspended(kind) is true iff a suspend(kind) has occurred with no
\* successful restore(kind) and no RESET after it.
C5_IsSuspended ==
    \A k \in Kinds : isSuspended(k) <=> openSuspend[k]

\* a kind was suspended and restored while the other kind stays suspended
C5_Witness ==
    \E k \in Kinds, j \in Kinds :
        /\ k # j
        /\ snapshot # <<>> /\ snapshot[1].kind = k /\ snapshot[1].restored
        /\ ~ isSuspended(k)
        /\ isSuspended(j)

\* C6: a successful restore(kind) sets the mode to the mode at the most recent
\* suspend(kind), whatever MODE_CHANGED events were handled in between.
C6_RestoreMode ==
    [][\A k \in Kinds :
          (restore(k) /\ isSuspended(k)) => getMode(k)' = modeAtSuspend[k]]_vars

\* a restore that discarded a mode set while suspended
C6_Witness ==
    /\ outcome.modeDiscarded
    /\ \E k \in Kinds : ~ isSuspended(k) /\ getMode(k) = modeAtSuspend[k]
                        /\ dirtyPolicies[k]

\* C7: addPolicyList, removePolicyList, suspend and successful restore set the
\* dirty bit of their kind; only POLICIES_INSTALLED for the kind and RESET clear
\* it, and they do clear it.
C7_DirtyLifeCycle ==
    [][\A k \in Kinds :
          /\ isDirty(k)' \/ ~ ( \/ addPolicyList(k, PolicyList(Added))
                                \/ \E id \in 0..(MaxID - 1) : removePolicyList(k, id)
                                \/ suspend(k)
                                \/ restore(k) /\ isSuspended(k) )
          /\ (isDirty(k) /\ ~ isDirty(k)') =>
                (handlePoliciesInstalled(k) \/ handleReset)
          /\ ~ isDirty(k)' \/ ~ (handlePoliciesInstalled(k) \/ handleReset)]_vars

\* POLICIES_INSTALLED cleared the bit of its kind and left the other kind dirty
C7_Witness ==
    \E k \in Kinds, j \in Kinds :
        /\ k # j
        /\ outcome.emitted
        /\ ~ isDirty(k) /\ isDirty(j)
        /\ DOMAIN policySets[k].lists # {}

\* C8: extractValue returns the parsed value when it is finite and null
\* otherwise; never NaN, +Infinity or -Infinity.
C8_ExtractFinite ==
    extracted # Unset =>
        /\ extracted.type \in {"finite", "null"}
        /\ extracted.type = "finite" => extracted = parseNumber(rawValue)
        /\ extracted.type = "null" => parseNumber(rawValue).type # "finite"

\* -Infinity was typed and rejected
C8_Witness ==
    rawValue = <<"-", "Infinity">> /\ extracted = Null

\* C9: resize(x, y) returns a document equal to the receiver in id, name,
\* hasBackgroundLayer, layers, resolution and mode, whose bounds are the
\* receiver's bounds.updateSize(x, y); the receiver is unchanged.
C9_ResizeFrame ==
    [][resized' # resized =>
          LET r == resized'[1].result
              d == doc[1]
          IN /\ r.id = d.id /\ r.name = d.name
             /\ r.hasBackgroundLayer = d.hasBackgroundLayer
             /\ r.layers = d.layers
             /\ r.resolution = d.resolution /\ r.mode = d.mode
             /\ r.bounds = updateSize(d.bounds, resized'[1].x, resized'[1].y)
             /\ doc' = doc]_vars

\* a document was resized to a size different from its own
C9_Witness ==
    /\ resized # <<>>
    /\ resized[1].result.bounds # doc[1].bounds
    /\ resized[1].result.bounds.width = MaxSize
    /\ resized[1].result.resolution = 300

\* C10: whenever the master policy list of a kind differs from the list last
\* installed in Photoshop, isDirty(kind) is true.
C10_DirtyWhenOutOfSync ==
    \A k \in Kinds : getMasterPolicyList(k) # installed[k] => isDirty(k)

\* C11: after suspend(kind), addPolicyList and removePolicyList calls and
\* restore(kind), the master policy list is the lists held at the suspend and
\* not removed since, followed by the lists added since and not removed, each
\* list once and under its id.
C11_RestoreOrder ==
    \A k \in Kinds :
        suspension[k].restored =>
            LET held == suspension[k].held
                added == suspension[k].added
            IN /\ DOMAIN held \cap DOMAIN added = {}
               /\ DOMAIN policySets[k].lists = DOMAIN held \cup DOMAIN added
               /\ \A id \in DOMAIN held : policySets[k].lists[id] = held[id]
               /\ \A id \in DOMAIN added : policySets[k].lists[id] = added[id]
               /\ getMasterPolicyList(k) =
                      ConcatLists(held, DOMAIN held) \o ConcatLists(added, DOMAIN added)

\* a restore over a list held at the suspend and a list added during it
C11_Witness ==
    \E k \in Kinds :
        /\ suspension[k].restored
        /\ DOMAIN suspension[k].held # {}
        /\ DOMAIN suspension[k].added # {}
        /\ ~ isSuspended(k)

====
